---- MODULE Spec2Model ----
(***************************************************************************)
(* Icosphere meshes: the dense builder (StaticIcosphere), the sparse       *)
(* builder (SparseIcosphere) and the level manager (IcosphereLevels).      *)
(*                                                                         *)
(* Rust indices are 0-based; a Vec is modelled as a sequence, so that      *)
(* vec[i] is seq[i + 1].  A HashMap is a function on the set of its keys.  *)
(* A vertex is its position (the Vec3 implementation of IcosphereVertex);  *)
(* positions are symbolic: a corner of the icosahedron is named by its     *)
(* number, the normalized midpoint of two positions by the unordered pair. *)
(***************************************************************************)
EXTENDS Integers, Sequences, FiniteSets, TLC

\* ------------------------------------------------------------------ bounds
\* largest min_binning_depth, level count and step a manager is built with
MaxMinDepth == 1
MaxLevelCount == 2
MaxStep == 2
\* the dense mesh is subdivided up to this depth
MaxDenseDepth == 1
\* parent triangle indices requested from outside the manager: 0 .. MaxParent - 1
MaxParent == 2
\* chunk indices requested from the manager: 0 .. MaxChunk - 1
MaxChunk == 2
\* the largest number of triangles of a sparse mesh subdivided as a whole
MaxSubdivideKeys == 4
\* the managers whose arithmetic is queried: min_binning_depth up to
\* MaxQueryMinDepth, level count and step up to these, max_binning_depth up
\* to MaxQueryMaxDepth, depths asked for up to MaxQueryDepth
MaxQueryMinDepth == 1
MaxQueryMaxDepth == 4
MaxQueryLevelCount == 3
MaxQueryStep == 2
MaxQueryDepth == 10
\* chunk indices whose subchunk range is asked for: 0 .. MaxQueryChunk
MaxQueryChunk == 5
\* two callers at once: the level count of their manager, and the parent and
\* chunk indices they ask for: 0 .. MaxConcurrentIndex - 1
ConcurrentLevelCount == 4
MaxConcurrentIndex == 2

\* ------------------------------------------------------- count formulas
\* (a shift by the depth, not by twice the depth)
Pow4_Shift(n) == 2 ^ n

\* 1 << (binning_depth * 2)
Pow4(n) == 2 ^ (2 * n)

vertex_count(binning_depth) == 10 * Pow4(binning_depth) + 2

triangle_count(binning_depth) == 20 * Pow4(binning_depth)

\* ------------------------------------------------------------ positions
\* one of the twelve fixed positions of regular()
Corner(k) == [c |-> k, m |-> {}]

\* (p + q).normalize()
Midpoint(p, q) == [c |-> -1, m |-> {p, q}]

\* ----------------------------------------------------------------- maps
EmptyMap == <<>>

\* HashMap::insert: the new value replaces an old one
Put(f, k, v) == (k :> v) @@ f

\* neighbors.entry(k).or_default().insert(v)
EntryInsert(n, k, v) == Put(n, k, (IF k \in DOMAIN n THEN n[k] ELSE {}) \cup {v})

\* let key = if i > j { (j, i) } else { (i, j) };
Key(i, j) == IF i > j THEN <<j, i>> ELSE <<i, j>>

\* the four neighbor insertions made for a new midpoint of (i, j)
LinkMidpoint(n, midpoint_index, i, j) ==
    EntryInsert(EntryInsert(EntryInsert(EntryInsert(n,
        midpoint_index, i), midpoint_index, j), i, midpoint_index), j, midpoint_index)

\* ------------------------------------------------------- dense builder
RegularTriangles ==
    << <<0, 11, 5>>, <<0, 5, 1>>, <<0, 1, 7>>, <<0, 7, 10>>, <<0, 10, 11>>,
       <<1, 5, 9>>, <<5, 11, 4>>, <<11, 10, 2>>, <<10, 7, 6>>, <<7, 1, 8>>,
       <<3, 9, 4>>, <<3, 4, 2>>, <<3, 2, 6>>, <<3, 6, 8>>, <<3, 8, 9>>,
       <<4, 9, 5>>, <<2, 4, 11>>, <<6, 2, 10>>, <<8, 6, 7>>, <<9, 8, 1>> >>

RegularNeighborIndices ==
    << <<11, 5, 1, 7, 10>>, <<5, 9, 7, 8, 9>>, <<11, 10, 3, 4, 6>>,
       <<9, 4, 2, 6, 8>>, <<5, 11, 3, 9, 2>>, <<0, 11, 1, 9, 4>>,
       <<10, 7, 3, 2, 8>>, <<0, 1, 10, 6, 8>>, <<3, 6, 7, 9, 1>>,
       <<1, 5, 3, 8, 4>>, <<0, 7, 11, 2, 6>>, <<0, 5, 10, 4, 2>> >>

\* StaticIcosphere::regular()
Regular ==
    [vertices |-> [k \in 1..12 |-> Corner(k - 1)],
     triangles |-> RegularTriangles,
     neighbors |-> [v \in 0..11 |->
                      {RegularNeighborIndices[v + 1][x] : x \in 1..5}],
     binning_depth |-> 0,
     midpoints |-> EmptyMap]

\* One iteration of the edge loop of StaticIcosphere::subdivide for the
\* parent triangle [a, b, c] of ico: st is the mesh under construction
\* together with segment_midpoints (seg).
StaticEdge(ico, st, a, b, c, edge_index) ==
    LET i == <<a, b, c>>[edge_index]
        j == <<b, c, a>>[edge_index]
        key == Key(i, j)
        hit == key \in DOMAIN ico.midpoints
        midpoint_index == IF hit THEN ico.midpoints[key] ELSE Len(st.vertices)
        vs == IF hit THEN st.vertices
              ELSE Append(st.vertices,
                          Midpoint(st.vertices[i + 1], st.vertices[j + 1]))
        ms == IF hit THEN st.midpoints ELSE Put(st.midpoints, key, midpoint_index)
        ns == IF hit THEN st.neighbors
              ELSE LinkMidpoint(st.neighbors, midpoint_index, i, j)
        seg == [st.seg EXCEPT ![edge_index] = midpoint_index]
        d == seg[1]
        e == seg[2]
        f == seg[3]
    IN  [vertices |-> vs,
         triangles |-> st.triangles \o
             << <<a, d, f>>, <<b, e, d>>, <<c, f, e>>, <<d, e, f>> >>,
         neighbors |-> ns,
         midpoints |-> ms,
         seg |-> seg,
         parent_triangle |-> st.parent_triangle]

\* The body of the loop over parent triangles; st.parent_triangle is the
\* (0-based) loop variable.
StaticTriangle(ico, st) ==
    LET t == ico.triangles[st.parent_triangle + 1]
        s0 == [st EXCEPT !.seg = <<0, 0, 0>>]
        s1 == StaticEdge(ico, s0, t[1], t[2], t[3], 1)
        s2 == StaticEdge(ico, s1, t[1], t[2], t[3], 2)
        s3 == StaticEdge(ico, s2, t[1], t[2], t[3], 3)
    IN  [s3 EXCEPT !.parent_triangle = st.parent_triangle + 1]

\* The iterations of the loop from st.parent_triangle up to hi (exclusive),
\* in increasing order; the range is halved to keep the evaluation shallow.
RECURSIVE StaticLoop(_, _, _)
StaticLoop(ico, st, hi) ==
    IF st.parent_triangle >= hi THEN st
    ELSE IF st.parent_triangle + 1 = hi THEN StaticTriangle(ico, st)
    ELSE StaticLoop(ico, StaticLoop(ico, st, (st.parent_triangle + hi) \div 2), hi)

\* StaticIcosphere::subdivide
StaticSubdivide(ico) ==
    LET st == StaticLoop(ico,
                  [vertices |-> ico.vertices, triangles |-> <<>>,
                   neighbors |-> EmptyMap, midpoints |-> EmptyMap,
                   seg |-> <<0, 0, 0>>, parent_triangle |-> 0],
                  Len(ico.triangles))
    IN  [vertices |-> st.vertices,
         triangles |-> st.triangles,
         neighbors |-> st.neighbors,
         binning_depth |-> ico.binning_depth + 1,
         midpoints |-> st.midpoints]

\* StaticIcosphere::nth
RECURSIVE nth(_)
nth(binning_depth) ==
    IF binning_depth = 0 THEN Regular
    ELSE StaticSubdivide(nth(binning_depth - 1))

\* Icosphere::allocated_triangle_count and allocated_vertex_count of a
\* StaticIcosphere: the default methods of the trait, which return the totals
\* of the depth
static_allocated_triangle_count(ico) == triangle_count(ico.binning_depth)

static_allocated_vertex_count(ico) == vertex_count(ico.binning_depth)

\* ------------------------------------------------------ sparse builder
\* SparseIcosphere::from_static: triangles are keyed by their position
FromStatic(ico) ==
    [vertices |-> ico.vertices,
     triangles |-> [k \in 0..(Len(ico.triangles) - 1) |-> ico.triangles[k + 1]],
     neighbors |-> ico.neighbors,
     binning_depth |-> ico.binning_depth,
     midpoints |-> ico.midpoints,
     previous_vertices |-> EmptyMap]

\* SparseIcosphere::empty
Empty(binning_depth) ==
    [vertices |-> <<>>,
     triangles |-> EmptyMap,
     neighbors |-> EmptyMap,
     binning_depth |-> binning_depth,
     midpoints |-> EmptyMap,
     previous_vertices |-> EmptyMap]

total_triangle_count(ico) == triangle_count(ico.binning_depth)

total_vertex_count(ico) == vertex_count(ico.binning_depth)

\* SparseIcosphere::allocated_triangle_count: self.triangles.len()
allocated_triangle_count(ico) == Cardinality(DOMAIN ico.triangles)

\* SparseIcosphere::allocated_vertex_count: self.vertices.len()
allocated_vertex_count(ico) == Len(ico.vertices)

\* One iteration of the loop of subdivide_chunk that copies the corners of
\* previous.triangles[parent_index]: st is self, with new_vertex_indices
\* (nvi) and the flag of a failed index (panic).
CopyCorner(previous, st, parent_index, i) ==
    LET previous_vertex_index == previous.triangles[parent_index][i]
    IN  IF st.panic THEN st
        ELSE IF previous_vertex_index >= Len(previous.vertices)
        THEN [st EXCEPT !.panic = TRUE]
        ELSE IF previous_vertex_index \in DOMAIN st.previous_vertices
        THEN [st EXCEPT !.nvi[i] = st.previous_vertices[previous_vertex_index]]
        ELSE [st EXCEPT
                !.nvi[i] = Len(st.vertices),
                !.vertices = Append(st.vertices,
                                    previous.vertices[previous_vertex_index + 1]),
                !.previous_vertices = Put(st.previous_vertices,
                                          previous_vertex_index, Len(st.vertices))]

\* (the midpoint index is taken one past the end of self.vertices)
SparseEdge_PastEnd(previous, st, edge_index) ==
    LET i == st.nvi[edge_index]
        j == st.nvi[(edge_index % 3) + 1]
        key == Key(i, j)
        midpoint_index == Len(st.vertices) + 1
    IN  IF st.panic THEN st
        ELSE IF key \in DOMAIN st.midpoints
        THEN [st EXCEPT !.mids[edge_index] = st.midpoints[key]]
        ELSE IF i >= Len(previous.vertices) \/ j >= Len(previous.vertices)
        THEN [st EXCEPT !.panic = TRUE]
        ELSE [st EXCEPT
                !.mids[edge_index] = midpoint_index,
                !.vertices = Append(st.vertices,
                                    Midpoint(previous.vertices[i + 1],
                                             previous.vertices[j + 1])),
                !.midpoints = Put(st.midpoints, key, midpoint_index),
                !.neighbors = LinkMidpoint(st.neighbors, midpoint_index, i, j)]

\* One iteration of the loop of subdivide_chunk over the segments
\* (a, b), (b, c), (c, a), which are indices into self.vertices; the
\* positions of a new midpoint are read from previous.vertices.
SparseEdge(previous, st, edge_index) ==
    LET i == st.nvi[edge_index]
        j == st.nvi[(edge_index % 3) + 1]
        key == Key(i, j)
        midpoint_index == Len(st.vertices)
    IN  IF st.panic THEN st
        ELSE IF key \in DOMAIN st.midpoints
        THEN [st EXCEPT !.mids[edge_index] = st.midpoints[key]]
        ELSE IF i >= Len(previous.vertices) \/ j >= Len(previous.vertices)
        THEN [st EXCEPT !.panic = TRUE]
        ELSE [st EXCEPT
                !.mids[edge_index] = midpoint_index,
                !.vertices = Append(st.vertices,
                                    Midpoint(previous.vertices[i + 1],
                                             previous.vertices[j + 1])),
                !.midpoints = Put(st.midpoints, key, midpoint_index),
                !.neighbors = LinkMidpoint(st.neighbors, midpoint_index, i, j)]

\* (four insertions into a map that starts empty)
InsertChildren_Fresh(st, parent_index) ==
    LET new_triangle_index == parent_index * 4
    IN  IF st.panic THEN st
        ELSE [st EXCEPT !.triangles =
                Put(Put(Put(Put(EmptyMap,
                    new_triangle_index, <<st.nvi[1], st.mids[1], st.mids[3]>>),
                    new_triangle_index + 1, <<st.nvi[2], st.mids[2], st.mids[1]>>),
                    new_triangle_index + 2, <<st.nvi[3], st.mids[3], st.mids[2]>>),
                    new_triangle_index + 3, <<st.mids[1], st.mids[2], st.mids[3]>>)]

\* The four insertions that end subdivide_chunk.
InsertChildren(st, parent_index) ==
    LET a == st.nvi[1]
        b == st.nvi[2]
        c == st.nvi[3]
        d == st.mids[1]
        e == st.mids[2]
        f == st.mids[3]
        new_triangle_index == parent_index * 4
    IN  IF st.panic THEN st
        ELSE [st EXCEPT !.triangles =
                Put(Put(Put(Put(st.triangles,
                    new_triangle_index, <<a, d, f>>),
                    new_triangle_index + 1, <<b, e, d>>),
                    new_triangle_index + 2, <<c, f, e>>),
                    new_triangle_index + 3, <<d, e, f>>)]

\* the fields of a sparse mesh, without the locals of subdivide_chunk
MeshOf(st) ==
    [vertices |-> st.vertices,
     triangles |-> st.triangles,
     neighbors |-> st.neighbors,
     binning_depth |-> st.binning_depth,
     midpoints |-> st.midpoints,
     previous_vertices |-> st.previous_vertices]

\* (a depth test that lets every shallower previous mesh through)
DepthsAdjacent_AnyShallower(self, previous) ==
    previous.binning_depth + 1 <= self.binning_depth

\* if previous.binning_depth + 1 != self.binning_depth { panic!(..) }
DepthsAdjacent(self, previous) == previous.binning_depth + 1 = self.binning_depth

\* if self.triangles.len() == self.total_triangle_count() { return; }
AllGenerated(self) == allocated_triangle_count(self) = total_triangle_count(self)

\* (a presence test on the parent's own index)
ChunkPresent_ParentKey(self, parent_index) == parent_index \in DOMAIN self.triangles

\* let all_triangles_present = self.triangles.contains_key(&(parent_index * 4));
ChunkPresent(self, parent_index) == (parent_index * 4) \in DOMAIN self.triangles

\* SparseIcosphere::subdivide_chunk.  ico is self after the call; outcome is
\* "panic" (the panic! of the depth test, a missing key of previous.triangles
\* or an index beyond previous.vertices; self keeps what was written until
\* then), "skipped" (one of the two early returns) or "generated".
SubdivideChunk(self, previous, parent_index) ==
    IF ~DepthsAdjacent(self, previous)
    THEN [ico |-> self, outcome |-> "panic"]
    ELSE IF AllGenerated(self)
    THEN [ico |-> self, outcome |-> "skipped"]
    ELSE IF ChunkPresent(self, parent_index)
    THEN [ico |-> self, outcome |-> "skipped"]
    ELSE IF parent_index \notin DOMAIN previous.triangles
    THEN [ico |-> self, outcome |-> "panic"]
    ELSE LET s0 == [vertices |-> self.vertices,
                    triangles |-> self.triangles,
                    neighbors |-> self.neighbors,
                    binning_depth |-> self.binning_depth,
                    midpoints |-> self.midpoints,
                    previous_vertices |-> self.previous_vertices,
                    nvi |-> <<0, 0, 0>>, mids |-> <<0, 0, 0>>, panic |-> FALSE]
             s1 == CopyCorner(previous, s0, parent_index, 1)
             s2 == CopyCorner(previous, s1, parent_index, 2)
             s3 == CopyCorner(previous, s2, parent_index, 3)
             s4 == SparseEdge(previous, s3, 1)
             s5 == SparseEdge(previous, s4, 2)
             s6 == SparseEdge(previous, s5, 3)
             s7 == InsertChildren(s6, parent_index)
         IN  [ico |-> MeshOf(s7),
              outcome |-> IF s7.panic THEN "panic" ELSE "generated"]

\* for &chunk_index in self.triangles.keys() { ico.subdivide_chunk(self, chunk_index) }
\* of SparseIcosphere::subdivide: a HashMap yields its keys in an order the
\* program does not choose, so every order of the keys not yet visited is a
\* run; a run ends with the first panic, which drops the local ico.  The set
\* of the ways the loop can end: value holds the mesh a run returns.
RECURSIVE SubdivideRuns(_, _, _)
SubdivideRuns(self, ico, remaining) ==
    IF remaining = {} THEN {[outcome |-> "ok", value |-> <<ico>>]}
    ELSE UNION {LET r == SubdivideChunk(ico, self, chunk_index)
                IN  IF r.outcome = "panic"
                    THEN {[outcome |-> "panic", value |-> <<>>]}
                    ELSE SubdivideRuns(self, r.ico, remaining \ {chunk_index})
                : chunk_index \in remaining}

\* SparseIcosphere::subdivide: the ways the call can end
SparseSubdivide(self) ==
    SubdivideRuns(self, Empty(self.binning_depth + 1), DOMAIN self.triangles)

\* ------------------------------------------------------- level manager
VARIABLES
    levels,             \* IcosphereLevels.levels
    min_binning_depth,
    max_binning_depth,
    binning_depth_step,
    dense,              \* a StaticIcosphere held by the caller
    last,               \* the last call: its arguments and how it ended
    calls               \* the update_chunk calls two callers have in progress

vars == <<levels, min_binning_depth, max_binning_depth, binning_depth_step,
          dense, last, calls>>

\* S::create(binning_depth) of IcosphereLevels::new: a mesh that is not
\* generated yet
Create(binning_depth) == Empty(binning_depth)

\* IcosphereLevels::new
New(min, count, step) ==
    LET max == min + (count - 1) * step
    IN  /\ levels = [k \in 1..(max - min + 1) |-> Create(min + k - 1)]
        /\ min_binning_depth = min
        /\ max_binning_depth = max
        /\ binning_depth_step = step

\* (an index that ignores the step)
index_at_level_NoStep(level) == level

index_at_level(level) == level * binning_depth_step

binning_depth_at_level(level) == min_binning_depth + level * binning_depth_step

level_count == ((max_binning_depth - min_binning_depth) \div binning_depth_step) + 1

\* (a chunk size that grows with the step, not with its power of four)
chunk_size_Linear == 2 * binning_depth_step

\* 1 << (2 * self.binning_depth_step)
chunk_size == 2 ^ (2 * binning_depth_step)

\* chunk_count for a level above 0 (level - 1 does not underflow)
chunk_count(level) ==
    IF binning_depth_at_level(level) = 0 THEN triangle_count(0)
    ELSE triangle_count(binning_depth_at_level(level - 1))

\* the range start..end, as the sequence of its elements
subchunk_indices(chunk_index) ==
    [k \in 1..chunk_size |-> chunk_index * chunk_size + (k - 1)]

\* &self.levels[self.index_at_level(level)]
get(level) == levels[index_at_level(level) + 1]

NoCall == [op |-> "new", level |-> 0, index |-> 0, outcome |-> "ok", value |-> <<>>]

\* no update_chunk call is in progress
Idle == [start |-> <<>>, th |-> <<>>]

Init ==
    /\ \E min \in 1..MaxMinDepth, count \in 1..MaxLevelCount, step \in 1..MaxStep :
          New(min, count, step)
    /\ dense = Regular
    /\ last = NoCall
    /\ calls = Idle

\* a panic ends the program
Running == last.outcome # "panic"

\* the value update_chunk returns for an outcome of subdivide_chunk: whether
\* the chunk was generated by this call
Returned(outcome) ==
    IF outcome = "generated" THEN "true"
    ELSE IF outcome = "skipped" THEN "false"
    ELSE "panic"

\* IcosphereLevels::update_chunk.  split_at_mut(index) needs index <= len,
\* previous_levels.last().unwrap() needs index > 0 and
\* next_levels.first_mut().unwrap() needs index < len.
UpdateChunk(level, chunk_index) ==
    LET index == index_at_level(level)
        r == SubdivideChunk(levels[index + 1], levels[index], chunk_index)
    IN  /\ Running
        /\ IF index = 0 \/ index >= Len(levels)
           THEN /\ levels' = levels
                /\ last' = [op |-> "update_chunk", level |-> level,
                            index |-> chunk_index, outcome |-> "panic", value |-> <<>>]
           ELSE /\ levels' = [levels EXCEPT ![index + 1] = r.ico]
                /\ last' = [op |-> "update_chunk", level |-> level,
                            index |-> chunk_index, outcome |-> Returned(r.outcome),
                            value |-> <<>>]
        /\ UNCHANGED <<min_binning_depth, max_binning_depth, binning_depth_step, dense, calls>>

\* levels.get_mut(level).subdivide_chunk(&SparseIcosphere::from_static(dense), parent_index):
\* the caller generates a chunk of a level from a mesh of its own
SubdivideChunkOf(level, parent_index) ==
    LET index == index_at_level(level)
        r == SubdivideChunk(levels[index + 1], FromStatic(dense), parent_index)
    IN  /\ Running
        /\ index < Len(levels)
        /\ levels' = [levels EXCEPT ![index + 1] = r.ico]
        /\ last' = [op |-> "subdivide_chunk", level |-> level,
                    index |-> parent_index, outcome |-> r.outcome, value |-> <<>>]
        /\ UNCHANGED <<min_binning_depth, max_binning_depth, binning_depth_step, dense, calls>>

\* *levels.get_mut(level) = SparseIcosphere::from_static(dense): the caller
\* supplies the fully built mesh of a level (filled(d) is from_static(nth(d)))
FillLevel(level) ==
    LET index == index_at_level(level)
    IN  /\ Running
        /\ index < Len(levels)
        /\ dense.binning_depth = binning_depth_at_level(level)
        /\ levels[index + 1] # FromStatic(dense)
        /\ levels' = [levels EXCEPT ![index + 1] = FromStatic(dense)]
        /\ last' = [op |-> "from_static", level |-> level,
                    index |-> 0, outcome |-> "ok", value |-> <<>>]
        /\ UNCHANGED <<min_binning_depth, max_binning_depth, binning_depth_step, dense, calls>>

\* dense = dense.subdivide()  (a step of StaticIcosphere::nth)
DenseSubdivide ==
    /\ Running
    /\ dense.binning_depth < MaxDenseDepth
    /\ dense' = StaticSubdivide(dense)
    /\ last' = [op |-> "subdivide", level |-> 0,
                index |-> 0, outcome |-> "ok", value |-> <<>>]
    /\ UNCHANGED <<levels, min_binning_depth, max_binning_depth, binning_depth_step, calls>>

\* dense = StaticIcosphere::regular()
DenseRegular ==
    /\ Running
    /\ dense # Regular
    /\ dense' = Regular
    /\ last' = [op |-> "regular", level |-> 0,
                index |-> 0, outcome |-> "ok", value |-> <<>>]
    /\ UNCHANGED <<levels, min_binning_depth, max_binning_depth, binning_depth_step, calls>>

\* One iteration of the loop of flattened_chunk_indices, for the st.next-th
\* element of the range: the slice
\* indices[triangle_index * 3 .. triangle_index * 3 + 3] must lie within
\* indices and ico.triangle(triangle_index) must be present.
FlattenStep(st, ico, range) ==
    LET triangle_index == range[st.next]
    IN  IF st.panic THEN [st EXCEPT !.next = st.next + 1]
        ELSE IF triangle_index * 3 + 3 > Len(st.indices)
                \/ triangle_index \notin DOMAIN ico.triangles
        THEN [st EXCEPT !.panic = TRUE, !.next = st.next + 1]
        ELSE [st EXCEPT
                !.next = st.next + 1,
                !.indices =
                    [k \in 1..Len(st.indices) |->
                        IF k - 1 \in (triangle_index * 3)..(triangle_index * 3 + 2)
                        THEN ico.triangles[triangle_index][k - triangle_index * 3]
                        ELSE st.indices[k]]]

\* for triangle_index in subchunk_indices: the iterations from st.next up
\* to hi (inclusive), in order; the range is halved to keep the evaluation
\* shallow.
RECURSIVE FlattenLoop(_, _, _, _)
FlattenLoop(st, ico, range, hi) ==
    IF st.next > hi THEN st
    ELSE IF st.next = hi THEN FlattenStep(st, ico, range)
    ELSE FlattenLoop(FlattenLoop(st, ico, range, (st.next + hi) \div 2),
                     ico, range, hi)

\* IcosphereLevels::flattened_chunk_indices
FlattenedChunkIndices(level, chunk_index) ==
    LET st == FlattenLoop([indices |-> [k \in 1..(3 * chunk_size) |-> 0],
                           panic |-> FALSE, next |-> 1],
                          get(level), subchunk_indices(chunk_index), chunk_size)
    IN  /\ Running
        /\ index_at_level(level) < Len(levels)
        /\ last' = [op |-> "flattened_chunk_indices", level |-> level,
                    index |-> chunk_index,
                    outcome |-> IF st.panic THEN "panic" ELSE "ok",
                    value |-> IF st.panic THEN <<>> ELSE st.indices]
        /\ UNCHANGED <<levels, min_binning_depth, max_binning_depth,
                       binning_depth_step, dense, calls>>

\* levels.get(level).subdivide(): the caller subdivides the mesh of a level
\* as a whole; value holds the mesh returned
SubdivideLevel(level) ==
    /\ Running
    /\ index_at_level(level) < Len(levels)
    /\ allocated_triangle_count(get(level)) <= MaxSubdivideKeys
    /\ \E r \in SparseSubdivide(get(level)) :
          last' = [op |-> "sparse_subdivide", level |-> level, index |-> 0,
                   outcome |-> r.outcome, value |-> r.value]
    /\ UNCHANGED <<levels, min_binning_depth, max_binning_depth,
                   binning_depth_step, dense, calls>>

Levels == 0..(level_count - 1)

Next ==
    \/ \E level \in Levels, chunk_index \in 0..(MaxChunk - 1) :
          UpdateChunk(level, chunk_index)
    \/ \E level \in Levels, parent_index \in 0..(MaxParent - 1) :
          SubdivideChunkOf(level, parent_index)
    \/ \E level \in Levels : FillLevel(level)
    \/ DenseSubdivide
    \/ DenseRegular
    \/ \E level \in Levels, chunk_index \in 0..(MaxChunk - 1) :
          FlattenedChunkIndices(level, chunk_index)
    \/ \E level \in Levels : SubdivideLevel(level)

Spec == Init /\ [][Next]_vars

\* ------------------------------------------ the arithmetic of a manager
\* IcosphereLevels::level_of_binning_depth: None, or Some(value[1])
level_of_binning_depth(binning_depth) ==
    IF \/ binning_depth < min_binning_depth
       \/ binning_depth >= binning_depth_at_level(Len(levels))
       \/ (binning_depth - min_binning_depth) % binning_depth_step # 0
    THEN [outcome |-> "none", value |-> <<>>]
    ELSE [outcome |-> "some",
          value |-> <<(binning_depth - min_binning_depth) \div binning_depth_step, calls>>]

\* levels.level_of_binning_depth(binning_depth)
LevelOfBinningDepth(binning_depth) ==
    LET r == level_of_binning_depth(binning_depth)
    IN  /\ last' = [op |-> "level_of_binning_depth", level |-> 0,
                    index |-> binning_depth, outcome |-> r.outcome, value |-> r.value]
        /\ UNCHANGED <<levels, min_binning_depth, max_binning_depth,
                       binning_depth_step, dense, calls>>

\* levels.chunk_count(level), for the levels where level - 1 is defined
ChunkCount(level) ==
    /\ level >= 1 \/ binning_depth_at_level(level) = 0
    /\ last' = [op |-> "chunk_count", level |-> level, index |-> 0,
                outcome |-> "ok", value |-> <<chunk_count(level)>>]
    /\ UNCHANGED <<levels, min_binning_depth, max_binning_depth,
                   binning_depth_step, dense, calls>>

\* levels.subchunk_indices(chunk_index)
SubchunkIndices(chunk_index) ==
    /\ last' = [op |-> "subchunk_indices", level |-> 0, index |-> chunk_index,
                outcome |-> "ok", value |-> subchunk_indices(chunk_index)]
    /\ UNCHANGED <<levels, min_binning_depth, max_binning_depth,
                   binning_depth_step, dense, calls>>

\* vertex_count and triangle_count of a depth and of the next depth
Counts(binning_depth) ==
    /\ last' = [op |-> "counts", level |-> 0, index |-> binning_depth,
                outcome |-> "ok",
                value |-> <<vertex_count(binning_depth),
                            triangle_count(binning_depth),
                            vertex_count(binning_depth + 1),
                            triangle_count(binning_depth + 1)>>]
    /\ UNCHANGED <<levels, min_binning_depth, max_binning_depth,
                   binning_depth_step, dense, calls>>

\* IcosphereLevels::new with the parameters of the queried managers
InitQuery ==
    /\ \E min \in 0..MaxQueryMinDepth, count \in 1..MaxQueryLevelCount,
          step \in 1..MaxQueryStep :
          /\ min + (count - 1) * step <= MaxQueryMaxDepth
          /\ New(min, count, step)
    /\ dense = Regular
    /\ last = NoCall
    /\ calls = Idle

NextQuery ==
    \/ \E binning_depth \in 0..MaxQueryDepth : LevelOfBinningDepth(binning_depth)
    \/ \E level \in Levels : ChunkCount(level)
    \/ \E chunk_index \in 0..MaxQueryChunk : SubchunkIndices(chunk_index)
    \/ \E binning_depth \in 0..MaxQueryDepth : Counts(binning_depth)

SpecQuery == InitQuery /\ [][NextQuery]_vars

\* ------------------------------------------ two update_chunk calls at once
\* IcosphereLevels::update_chunk run as a whole on the meshes lv
UpdateChunkOn(lv, level, chunk_index) ==
    LET index == index_at_level(level)
    IN  IF index = 0 \/ index >= Len(lv)
        THEN [levels |-> lv, outcome |-> "panic"]
        ELSE LET r == SubdivideChunk(lv[index + 1], lv[index], chunk_index)
             IN  [levels |-> [lv EXCEPT ![index + 1] = r.ico],
                  outcome |-> Returned(r.outcome)]

\* (a caller that works on its own copy of the meshes, taken when the calls
\* began, and stores the copy back)
WriteCurrent_OwnCopy(lv, index, mesh) == [calls.start EXCEPT ![index + 1] = mesh]

\* next_levels.first_mut(): the call writes the mesh at index in place
WriteCurrent(lv, index, mesh) == [lv EXCEPT ![index + 1] = mesh]

\* a call that has not started: its arguments, its position (pc), the locals
\* new_vertex_indices and midpoints of subdivide_chunk and how it ended
NewCall(level, chunk_index) ==
    [level |-> level, index |-> chunk_index, pc |-> "enter",
     nvi |-> <<0, 0, 0>>, mids |-> <<0, 0, 0>>, outcome |-> "running"]

\* self with the locals of the call c
Working(self, c) ==
    [vertices |-> self.vertices,
     triangles |-> self.triangles,
     neighbors |-> self.neighbors,
     binning_depth |-> self.binning_depth,
     midpoints |-> self.midpoints,
     previous_vertices |-> self.previous_vertices,
     nvi |-> c.nvi, mids |-> c.mids, panic |-> FALSE]

\* the call c after the part of subdivide_chunk that left st, which goes on
\* at pc unless that part panicked
After(c, st, pc) ==
    [c EXCEPT !.nvi = st.nvi, !.mids = st.mids,
              !.pc = IF st.panic THEN "done" ELSE pc,
              !.outcome = IF st.panic THEN "panic"
                          ELSE IF pc = "done" THEN Returned("generated")
                          ELSE "running"]

\* The next part of subdivide_chunk for the call c on self and previous: the
\* tests before the first write, the loop over the corners, the loop over
\* the segments, the four insertions.  self is the mesh after the part.
Advance(c, self, previous) ==
    IF c.pc = "enter"
    THEN LET r == IF ~DepthsAdjacent(self, previous) THEN "panic"
                  ELSE IF AllGenerated(self) \/ ChunkPresent(self, c.index) THEN "skipped"
                  ELSE IF c.index \notin DOMAIN previous.triangles THEN "panic"
                  ELSE "running"
         IN  [self |-> self,
              c |-> [c EXCEPT !.pc = IF r = "running" THEN "corners" ELSE "done",
                              !.outcome = IF r = "running" THEN r ELSE Returned(r)]]
    ELSE IF c.pc = "corners"
    THEN LET st == CopyCorner(previous,
                     CopyCorner(previous,
                       CopyCorner(previous, Working(self, c), c.index, 1),
                       c.index, 2),
                     c.index, 3)
         IN  [self |-> MeshOf(st), c |-> After(c, st, "edges")]
    ELSE IF c.pc = "edges"
    THEN LET st == SparseEdge(previous,
                     SparseEdge(previous,
                       SparseEdge(previous, Working(self, c), 1), 2), 3)
         IN  [self |-> MeshOf(st), c |-> After(c, st, "insert")]
    ELSE LET st == InsertChildren(Working(self, c), c.index)
         IN  [self |-> MeshOf(st), c |-> After(c, st, "done")]

\* two callers start update_chunk(level1, chunk1) and update_chunk(level2, chunk2)
BeginCalls(level1, chunk1, level2, chunk2) ==
    /\ Running
    /\ calls = Idle
    /\ calls' = [start |-> levels,
                 th |-> <<NewCall(level1, chunk1), NewCall(level2, chunk2)>>]
    /\ UNCHANGED <<levels, min_binning_depth, max_binning_depth,
                   binning_depth_step, dense, last>>

\* the caller t runs the next part of its call
StepCall(t) ==
    /\ calls # Idle
    /\ calls.th[t].pc # "done"
    /\ LET c == calls.th[t]
           index == index_at_level(c.level)
           split == index > 0 /\ index < Len(levels)
           r == IF split THEN Advance(c, levels[index + 1], levels[index])
                ELSE [self |-> <<>>,
                      c |-> [c EXCEPT !.pc = "done", !.outcome = "panic"]]
       IN  /\ levels' = IF split THEN WriteCurrent(levels, index, r.self) ELSE levels
           /\ calls' = [calls EXCEPT !.th[t] = r.c]
           /\ last' = IF r.c.pc = "done"
                      THEN [op |-> "update_chunk", level |-> c.level,
                            index |-> c.index, outcome |-> r.c.outcome, value |-> <<>>]
                      ELSE last
    /\ UNCHANGED <<min_binning_depth, max_binning_depth, binning_depth_step, dense>>

\* IcosphereLevels::new(1, ConcurrentLevelCount, 1)
InitConcurrent ==
    /\ New(1, ConcurrentLevelCount, 1)
    /\ dense = Regular
    /\ last = NoCall
    /\ calls = Idle

\* the meshes are generated by one caller; then two callers call update_chunk
\* for two levels, the caller of the lower level being caller 1
NextConcurrent ==
    \/ \E parent_index \in 0..(MaxConcurrentIndex - 1) :
          calls = Idle /\ SubdivideChunkOf(0, parent_index)
    \/ \E level \in Levels, chunk_index \in 0..(MaxConcurrentIndex - 1) :
          calls = Idle /\ UpdateChunk(level, chunk_index)
    \/ \E level1, level2 \in Levels, chunk1, chunk2 \in 0..(MaxConcurrentIndex - 1) :
          level1 < level2 /\ BeginCalls(level1, chunk1, level2, chunk2)
    \/ \E t \in 1..2 : StepCall(t)

SpecConcurrent == InitConcurrent /\ [][NextConcurrent]_vars

\* ------------------------------------------------ the calls, for the claims
\* the position of vertex i of a mesh
Pos(m, i) == m.vertices[i + 1]

\* the positions of the corners of a triangle of a mesh
TriPos(m, t) == <<Pos(m, t[1]), Pos(m, t[2]), Pos(m, t[3])>>

\* call record l is a call of subdivide_chunk on a mesh of the manager
IsChunkCall(l) ==
    \/ l.op = "subdivide_chunk"
    \/ /\ l.op = "update_chunk"
       /\ index_at_level(l.level) \in 1..(Len(levels) - 1)

\* the mesh (self) the call works on, and the mesh it reads (previous)
SelfOf(l) == levels[index_at_level(l.level) + 1]

\* the same mesh after the call
SelfAfter(l) == levels'[index_at_level(l.level) + 1]

PreviousOf(l) ==
    IF l.op = "update_chunk" THEN levels[index_at_level(l.level)]
    ELSE FromStatic(dense)

\* previous is one depth below self
Adjacent(self, previous) == self.binning_depth = previous.binning_depth + 1

\* as many triangles are allocated as the depth has
Full(m) == Cardinality(DOMAIN m.triangles) = 20 * 4 ^ m.binning_depth

\* the first child of parent p is among the triangle keys of m
HasChunk(m, p) == \E key \in DOMAIN m.triangles : key = 4 * p

\* every triangle key of the depth is present
FullyGenerated(m) ==
    \A key \in 0..(triangle_count(m.binning_depth) - 1) : key \in DOMAIN m.triangles

\* ------------------------------------------------------------------- C10
\* C10: the depth-0 mesh of regular() has 12 vertices and 20 triangles, and
\* the neighbor set of each of its 12 vertices has exactly 5 elements.
C10_RegularFiveNeighbors ==
    dense.binning_depth = 0 =>
        /\ Len(dense.vertices) = 12
        /\ Len(dense.triangles) = 20
        /\ DOMAIN dense.neighbors = 0..11
        /\ \A v \in 0..11 : Cardinality(dense.neighbors[v]) = 5

\* -------------------------------------------------------------------- C5
\* vertex m of ico lies at the normalized midpoint of its vertices x and y
IsMidpointOf(ico, m, x, y) ==
    /\ m \in 0..(Len(ico.vertices) - 1)
    /\ Pos(ico, m) = Midpoint(Pos(ico, x), Pos(ico, y))

\* the triangles at 4p .. 4p+3 of child are the four children of triangle p
\* of parent, in the fixed order
ChildrenInOrder(parent, child, p) ==
    LET t == parent.triangles[p + 1]
        A == t[1]
        B == t[2]
        C == t[3]
        c0 == child.triangles[4 * p + 1]
        c1 == child.triangles[4 * p + 2]
        c2 == child.triangles[4 * p + 3]
        c3 == child.triangles[4 * p + 4]
        mAB == c0[2]
        mCA == c0[3]
        mBC == c1[2]
    IN  /\ IsMidpointOf(child, mAB, A, B)
        /\ IsMidpointOf(child, mBC, B, C)
        /\ IsMidpointOf(child, mCA, C, A)
        /\ c0 = <<A, mAB, mCA>>
        /\ c1 = <<B, mBC, mAB>>
        /\ c2 = <<C, mCA, mBC>>
        /\ c3 = <<mAB, mBC, mCA>>

\* C5: dense subdivide() of a mesh with n triangles yields 4n triangles at
\* depth + 1, the children of parent p at 4p .. 4p+3 in the order
\* [A, mAB, mCA], [B, mBC, mAB], [C, mCA, mBC], [mAB, mBC, mCA].
C5_DenseFourChildren ==
    [][last'.op = "subdivide" =>
        /\ dense'.binning_depth = dense.binning_depth + 1
        /\ Len(dense'.triangles) = 4 * Len(dense.triangles)
        /\ \A p \in 0..(Len(dense.triangles) - 1) :
              ChildrenInOrder(dense, dense', p)]_vars

\* -------------------------------------------------------------------- C9
\* C9: in every sparse mesh the allocated counts are at most the total
\* counts, and both are equal exactly when the mesh is fully generated.
C9_AllocatedAtMostTotal ==
    \A k \in 1..Len(levels) :
        LET m == levels[k]
        IN  /\ allocated_triangle_count(m) <= total_triangle_count(m)
            /\ allocated_vertex_count(m) <= total_vertex_count(m)
            /\ (/\ allocated_triangle_count(m) = total_triangle_count(m)
                /\ allocated_vertex_count(m) = total_vertex_count(m))
               <=> FullyGenerated(m)

\* -------------------------------------------------------------------- C1
\* the triangles of a mesh as triples of positions
SparseTrianglePositions(m) == {TriPos(m, m.triangles[k]) : k \in DOMAIN m.triangles}

DenseTrianglePositions(ico) == {TriPos(ico, ico.triangles[k]) : k \in 1..Len(ico.triangles)}

VertexPositions(m) == {m.vertices[k] : k \in 1..Len(m.vertices)}

\* the dense meshes of depth 1 and 2: subdivide() of the fully built parent
DenseDepth1 == nth(1)

DenseDepth2 == nth(2)

DenseTriangles1 == DenseTrianglePositions(DenseDepth1)

DenseTriangles2 == DenseTrianglePositions(DenseDepth2)

DensePositions1 == VertexPositions(DenseDepth1)

DensePositions2 == VertexPositions(DenseDepth2)

\* m was generated chunk by chunk from an empty mesh
BuiltByChunks(m) == DOMAIN m.previous_vertices # {}

\* C1: a sparse mesh of depth 1 or 2 generated chunk by chunk from the full
\* parent has the triangles and the vertex positions of the dense
\* subdivide() of that parent: no call of subdivide_chunk on an existing
\* parent triangle fails, what is generated so far is part of the dense
\* mesh, and all of it once every chunk is generated.
C1_SparseEqualsDense ==
    /\ (IsChunkCall(last) /\ Adjacent(SelfOf(last), PreviousOf(last))
            /\ last.index \in DOMAIN PreviousOf(last).triangles)
          => last.outcome # "panic"
    /\ \A k \in 1..Len(levels) :
          LET m == levels[k]
              ts == IF m.binning_depth = 1 THEN DenseTriangles1 ELSE DenseTriangles2
              ps == IF m.binning_depth = 1 THEN DensePositions1 ELSE DensePositions2
          IN  (m.binning_depth \in 1..2 /\ BuiltByChunks(m) /\ last.outcome # "panic") =>
                /\ SparseTrianglePositions(m) \subseteq ts
                /\ VertexPositions(m) \subseteq ps
                /\ FullyGenerated(m) =>
                      /\ SparseTrianglePositions(m) = ts
                      /\ VertexPositions(m) = ps

\* -------------------------------------------------------------------- C2
\* C2: after update_chunk(level, chunk_index), for level >= 1, a chunk index
\* below chunk_count(level) and a parent triangle that exists, every
\* triangle index of subchunk_indices(chunk_index) is present in get(level).
C2_UpdateChunkMaterializes ==
    (/\ last.op = "update_chunk"
     /\ last.level \in 1..(level_count - 1)
     /\ last.index < chunk_count(last.level)
     /\ last.index \in DOMAIN PreviousOf(last).triangles)
    => /\ last.outcome # "panic"
       /\ \A k \in 1..chunk_size :
             subchunk_indices(last.index)[k] \in DOMAIN get(last.level).triangles

\* -------------------------------------------------------------------- C3
\* C3: update_chunk(level, i) for a chunk that is not generated yet returns
\* true, and the same call made next returns false and leaves the
\* allocated triangle and vertex counts of the level's mesh as they were.
C3_UpdateChunkIdempotent ==
    [][(/\ last'.op = "update_chunk"
        /\ last'.level \in 1..(level_count - 1)
        /\ last'.index < chunk_count(last'.level))
       => /\ (/\ last'.index \in DOMAIN PreviousOf(last').triangles
              /\ ~HasChunk(SelfOf(last'), last'.index))
             => last'.outcome = "true"
          /\ (/\ last.op = "update_chunk"
              /\ last.level = last'.level
              /\ last.index = last'.index
              /\ last.outcome = "true")
             => /\ last'.outcome = "false"
                /\ allocated_triangle_count(SelfAfter(last')) =
                       allocated_triangle_count(SelfOf(last'))
                /\ allocated_vertex_count(SelfAfter(last')) =
                       allocated_vertex_count(SelfOf(last'))]_vars

\* -------------------------------------------------------------------- C4
\* every triangle of the chunk is present in the mesh of the level
ChunkGenerated(level, chunk_index) ==
    \A k \in 1..chunk_size :
        subchunk_indices(chunk_index)[k] \in DOMAIN get(level).triangles

\* C4: for a generated chunk, flattened_chunk_indices(level, chunk_index)
\* returns 3 * chunk_size() indices, the k-th triple being
\* triangle(chunk_index * chunk_size() + k) of the level's mesh.
C4_FlattenedChunk ==
    (last.op = "flattened_chunk_indices" /\ ChunkGenerated(last.level, last.index))
    => /\ last.outcome = "ok"
       /\ Len(last.value) = 3 * chunk_size
       /\ \A k \in 0..(chunk_size - 1) :
             <<last.value[3 * k + 1], last.value[3 * k + 2], last.value[3 * k + 3]>>
                = get(last.level).triangles[last.index * chunk_size + k]

\* -------------------------------------------------------------------- C6
\* self2 is self after the chunk of parent p of previous was inserted
FourChildrenInserted(self, self2, previous, p) ==
    LET t == previous.triangles[p]
        a == self2.previous_vertices[t[1]]
        b == self2.previous_vertices[t[2]]
        c == self2.previous_vertices[t[3]]
        d == self2.midpoints[Key(a, b)]
        e == self2.midpoints[Key(b, c)]
        f == self2.midpoints[Key(c, a)]
    IN  /\ DOMAIN self2.triangles = DOMAIN self.triangles \cup (4 * p)..(4 * p + 3)
        /\ \A key \in DOMAIN self.triangles : self2.triangles[key] = self.triangles[key]
        /\ Pos(self2, a) = Pos(previous, t[1])
        /\ Pos(self2, b) = Pos(previous, t[2])
        /\ Pos(self2, c) = Pos(previous, t[3])
        /\ Pos(self2, d) = Midpoint(Pos(self2, a), Pos(self2, b))
        /\ Pos(self2, e) = Midpoint(Pos(self2, b), Pos(self2, c))
        /\ Pos(self2, f) = Midpoint(Pos(self2, c), Pos(self2, a))
        /\ self2.triangles[4 * p] = <<a, d, f>>
        /\ self2.triangles[4 * p + 1] = <<b, e, d>>
        /\ self2.triangles[4 * p + 2] = <<c, f, e>>
        /\ self2.triangles[4 * p + 3] = <<d, e, f>>

\* C6: subdivide_chunk(previous, p) on a mesh of the next depth that is not
\* full and lacks key 4p inserts the keys 4p .. 4p+3 with [a, d, f],
\* [b, e, d], [c, f, e], [d, e, f] (a, b, c the copied corners of triangle p,
\* d, e, f the midpoints of ab, bc, ca), and no other key.
C6_ChunkInsertsFourChildren ==
    [][(/\ IsChunkCall(last')
        /\ Adjacent(SelfOf(last'), PreviousOf(last'))
        /\ ~Full(SelfOf(last'))
        /\ ~HasChunk(SelfOf(last'), last'.index)
        /\ last'.index \in DOMAIN PreviousOf(last').triangles)
       => /\ last'.outcome \in {"generated", "true"}
          /\ FourChildrenInserted(SelfOf(last'), SelfAfter(last'),
                                  PreviousOf(last'), last'.index)]_vars

C8_NonAdjacentDepthPanics ==
    [][(IsChunkCall(last') /\ ~Adjacent(SelfOf(last'), PreviousOf(last')))
       => /\ last'.outcome = "panic"
          /\ levels' = levels]_vars

\* subdivide_chunk was called with a mesh of a non-adjacent depth on a mesh
\* that holds the chunk already, and panicked
C8_Witness ==
    /\ last.op = "subdivide_chunk"
    /\ last.outcome = "panic"
    /\ ~Adjacent(SelfOf(last), PreviousOf(last))
    /\ HasChunk(SelfOf(last), last.index)

\* ------------------------------------------------------------------- C11
\* the neighbor map of a mesh with n vertices has an entry for every vertex,
\* 12 vertices with 5 neighbors and all others with 6
FiveOrSixNeighbors(neighbors, n) ==
    /\ DOMAIN neighbors = 0..(n - 1)
    /\ Cardinality({v \in 0..(n - 1) : Cardinality(neighbors[v]) = 5}) = 12
    /\ \A v \in 0..(n - 1) : Cardinality(neighbors[v]) \in {5, 6}
    /\ \A v \in 12..(n - 1) : Cardinality(neighbors[v]) = 6

\* C11: in every fully built mesh of depth >= 1 (the dense nth(d), a sparse
\* mesh with all its chunks) every vertex has a neighbor entry, exactly 12
\* vertices have 5 neighbors and every vertex made by subdivision has 6.
C11_NeighborCounts ==
    /\ dense.binning_depth >= 1 =>
          FiveOrSixNeighbors(dense.neighbors, Len(dense.vertices))
    /\ \A k \in 1..Len(levels) :
          (levels[k].binning_depth >= 1 /\ FullyGenerated(levels[k])) =>
              FiveOrSixNeighbors(levels[k].neighbors, Len(levels[k].vertices))

\* ------------------------------------------------------------------- C12
\* the keys 4k .. 4k+3 for every key k of a mesh
ChildKeys(m) == UNION {{4 * k, 4 * k + 1, 4 * k + 2, 4 * k + 3} : k \in DOMAIN m.triangles}

\* C12: subdivide() of a sparse mesh of depth d, fully or partly generated,
\* completes and returns a mesh of depth d + 1 whose keys are exactly
\* 4k .. 4k+3 for the keys k of the source.
C12_SparseSubdivideKeys ==
    last.op = "sparse_subdivide" =>
        /\ last.outcome = "ok"
        /\ last.value[1].binning_depth = get(last.level).binning_depth + 1
        /\ DOMAIN last.value[1].triangles = ChildKeys(get(last.level))

\* ------------------------------------------------------------------- C13
\* mesh m2 holds every triangle key of m with its triple and every vertex of
\* m at its index
Grows(m, m2) ==
    /\ DOMAIN m.triangles \subseteq DOMAIN m2.triangles
    /\ \A key \in DOMAIN m.triangles : m2.triangles[key] = m.triangles[key]
    /\ Len(m.vertices) <= Len(m2.vertices)
    /\ \A i \in 1..Len(m.vertices) : m2.vertices[i] = m.vertices[i]

\* C13: a subdivide_chunk or update_chunk call never removes a triangle key
\* or a vertex of a sparse mesh, never changes the triple of a key that was
\* present and never changes the vertex at an index that was present.
C13_SparseOnlyGrows ==
    [][last'.op \in {"subdivide_chunk", "update_chunk"} =>
          /\ Len(levels') = Len(levels)
          /\ \A k \in 1..Len(levels) : Grows(levels[k], levels'[k])]_vars

\* a chunk was generated into a mesh that already held other chunks
C13_Witness ==
    /\ last.op \in {"subdivide_chunk", "update_chunk"}
    /\ last.outcome \in {"generated", "true"}
    /\ Cardinality(DOMAIN SelfOf(last).triangles) >= 8
    /\ Len(SelfOf(last).vertices) >= 9

RangeSet(range) == {range[i] : i \in 1..Len(range)}

\* the ranges subchunk_indices(k) of the chunks k < n are pairwise disjoint
\* and cover exactly 0 .. total - 1
Partition(n, total) ==
    /\ \A k1, k2 \in 0..(n - 1) :
          k1 # k2 => RangeSet(subchunk_indices(k1)) \cap RangeSet(subchunk_indices(k2)) = {}
    /\ UNION {RangeSet(subchunk_indices(k)) : k \in 0..(n - 1)} = 0..(total - 1)

\* C15: for a level L >= 1 whose next level L + 1 exists, chunk_count(L) is
\* the triangle count of the depth of level L - 1 and the ranges
\* subchunk_indices(k), k < chunk_count(L), are pairwise disjoint and cover
\* exactly 0 .. chunk_count(L + 1) - 1; with step 1, subchunk_indices(k) is
\* 4k .. 4k + 3.
C15_ChunkCoverage ==
    /\ (last.op = "chunk_count" /\ last.level >= 1 /\ last.level + 1 < level_count) =>
          /\ last.value[1] =
                20 * 4 ^ (min_binning_depth + (last.level - 1) * binning_depth_step)
          /\ Partition(last.value[1], chunk_count(last.level + 1))
    /\ (last.op = "subchunk_indices" /\ binning_depth_step = 1) =>
          last.value = <<4 * last.index, 4 * last.index + 1,
                         4 * last.index + 2, 4 * last.index + 3>>

\* chunk_count was asked for a level that has a level below and one above
C15_Witness ==
    /\ last.op = "chunk_count"
    /\ last.level >= 1
    /\ last.level + 1 < level_count
    /\ binning_depth_step = 2

SameContents(s, m) ==
    /\ s.binning_depth = m.binning_depth
    /\ s.vertices = m.vertices
    /\ DOMAIN s.neighbors = DOMAIN m.neighbors
    /\ \A v \in DOMAIN m.neighbors : s.neighbors[v] = m.neighbors[v]
    /\ DOMAIN s.triangles = 0..(Len(m.triangles) - 1)
    /\ \A i \in DOMAIN s.triangles : s.triangles[i] = m.triangles[i + 1]

\* C18: from_static(m) of a fully built dense mesh m has the depth, vertex
\* list, neighbor sets and triangles of m (triangle(i) = m.triangle(i), no
\* other key), and its allocated counts equal the counts of the dense mesh.
C18_FromStaticRoundTrip ==
    last.op = "from_static" =>
        /\ SameContents(get(last.level), dense)
        /\ allocated_triangle_count(get(last.level)) = static_allocated_triangle_count(dense)
        /\ allocated_vertex_count(get(last.level)) = static_allocated_vertex_count(dense)

\* ------------------------------------------------------------------- C19
\* C19: for a depth d, vertex_count(d) = 10 * 4^d + 2 and
\* triangle_count(d) = 20 * 4^d, triangle_count(d + 1) = 4 * triangle_count(d)
\* and vertex_count(d + 1) = vertex_count(d) + 30 * 4^d.
C19_CountFormulas ==
    last.op = "counts" =>
        /\ last.value[1] = 10 * 4 ^ last.index + 2
        /\ last.value[2] = 20 * 4 ^ last.index
        /\ last.value[4] = 4 * last.value[2]
        /\ last.value[3] = last.value[1] + 30 * 4 ^ last.index

\* the counts of a depth above 0 were computed
C19_Witness ==
    /\ last.op = "counts"
    /\ last.index >= 2
    /\ last.value[2] >= 320

\* ------------------------------------------------------------------- C20
\* the undirected edges {i, j} of a dense mesh
EdgesOf(ico) ==
    UNION {{{ico.triangles[k][1], ico.triangles[k][2]},
            {ico.triangles[k][2], ico.triangles[k][3]},
            {ico.triangles[k][3], ico.triangles[k][1]}} : k \in 1..Len(ico.triangles)}

\* the indices of the vertices of child that lie at the midpoint of the edge
\* e of parent
MidpointsOfEdge(parent, child, e) ==
    {v \in 0..(Len(child.vertices) - 1) :
        \E i, j \in e : i # j /\ Pos(child, v) = Midpoint(Pos(parent, i), Pos(parent, j))}

\* the key (min(i, j), max(i, j)) of an edge
CanonicalKey(e) ==
    CHOOSE key \in e \X e : key[1] < key[2]

\* child has one midpoint vertex per edge of parent, recorded under the
\* canonical key and used by every child triangle with a corner at that
\* midpoint, and no vertex besides those of parent and the midpoints
Deduplicated(parent, child) ==
    /\ \A e \in EdgesOf(parent) :
          /\ Cardinality(MidpointsOfEdge(parent, child, e)) = 1
          /\ CanonicalKey(e) \in DOMAIN child.midpoints
          /\ child.midpoints[CanonicalKey(e)] \in MidpointsOfEdge(parent, child, e)
          /\ \A k \in 1..Len(child.triangles), c \in 1..3 :
                child.triangles[k][c] \in MidpointsOfEdge(parent, child, e) =>
                    child.triangles[k][c] = child.midpoints[CanonicalKey(e)]
    /\ Len(child.vertices) = Len(parent.vertices) + Cardinality(EdgesOf(parent))

\* C20: dense subdivide() creates exactly one midpoint vertex for every
\* undirected edge of the parent, recorded under the key (min, max); the
\* triangles on both sides of the edge use that one index; the child has as
\* many vertices as the parent has vertices and edges together.
C20_DenseMidpointsDeduplicated ==
    [][last'.op = "subdivide" => Deduplicated(dense, dense')]_vars

\* ------------------------------------------------------------------- C16
\* both calls in progress have ended
BothDone == calls # Idle /\ \A t \in 1..2 : calls.th[t].pc = "done"

\* the two calls are for levels that are neither the same nor next to each other
NonAdjacentLevels ==
    \/ calls.th[1].level >= calls.th[2].level + 2
    \/ calls.th[2].level >= calls.th[1].level + 2

\* the call c1 run to its end on the meshes lv, then the call c2
Sequential(lv, c1, c2) ==
    LET a == UpdateChunkOn(lv, c1.level, c1.index)
        b == UpdateChunkOn(a.levels, c2.level, c2.index)
    IN  [levels |-> b.levels, first |-> a.outcome, second |-> b.outcome]

\* the meshes and the results after both calls are those of the two calls
\* run one after the other, in either order
AsSequential ==
    LET s12 == Sequential(calls.start, calls.th[1], calls.th[2])
        s21 == Sequential(calls.start, calls.th[2], calls.th[1])
    IN  /\ levels = s12.levels
        /\ levels = s21.levels
        /\ calls.th[1].outcome = s12.first /\ calls.th[2].outcome = s12.second
        /\ calls.th[2].outcome = s21.first /\ calls.th[1].outcome = s21.second

\* a part of the call of caller t leaves every mesh but the one at index
\* level * step as it was
WritesOnlyCurrent(t) ==
    (calls # Idle /\ calls' # Idle /\ calls'.th[t] # calls.th[t]) =>
        \A k \in 1..Len(levels) :
            k # calls.th[t].level * binning_depth_step + 1 => levels'[k] = levels[k]

\* C16: two update_chunk calls for different, non-adjacent levels work on
\* disjoint meshes (a call writes only the mesh at index level * step), so
\* however their parts interleave the meshes and results at the end are
\* those of the two calls run one after the other, in either order.
C16_DisjointCallsCommute ==
    /\ []((BothDone /\ NonAdjacentLevels) => AsSequential)
    /\ [][\A t \in 1..2 : WritesOnlyCurrent(t)]_vars

\* both calls generated their chunk, for levels that are not adjacent
C16_Witness ==
    /\ BothDone
    /\ NonAdjacentLevels
    /\ \A t \in 1..2 : calls.th[t].outcome = "true"
    /\ levels # calls.start

\* ------------------------------------------------------------------- C21
\* the map f sends different keys to different values
Injective(f) == \A x, y \in DOMAIN f : f[x] = f[y] => x = y

\* every key of the map f is a key of g with the same value
KeepsEntries(f, g) == \A x \in DOMAIN f : x \in DOMAIN g /\ g[x] = f[x]

\* no two indices of the mesh hold the same vertex
DistinctVertices(m) ==
    \A i, j \in 1..Len(m.vertices) : m.vertices[i] = m.vertices[j] => i = j

\* every index of the mesh is the copy of one vertex of the previous mesh or
\* the midpoint of one edge key
OneSourcePerIndex(m) ==
    /\ Injective(m.previous_vertices)
    /\ Injective(m.midpoints)
    /\ \A x \in DOMAIN m.previous_vertices, key \in DOMAIN m.midpoints :
          m.previous_vertices[x] # m.midpoints[key]
    /\ Len(m.vertices) =
          Cardinality(DOMAIN m.previous_vertices) + Cardinality(DOMAIN m.midpoints)

NoDuplicateVertex(m) == DistinctVertices(m) /\ OneSourcePerIndex(m)

\* a step keeps every entry of both index maps of every level
MapsKept ==
    \A k \in 1..Len(levels) :
        /\ KeepsEntries(levels[k].previous_vertices, levels'[k].previous_vertices)
        /\ KeepsEntries(levels[k].midpoints, levels'[k].midpoints)

\* C21: across subdivide_chunk calls on a sparse mesh, in any chunk order, no
\* vertex is duplicated: a vertex of the previous mesh is copied at most once
\* and its entry in the previous-to-current map never changes, an edge key
\* keeps the midpoint index it got, and no two indices hold the same vertex.
C21_NoDuplicateVertices ==
    [][last'.op \in {"subdivide_chunk", "update_chunk"} =>
          /\ MapsKept
          /\ \A k \in 1..Len(levels) :
                BuiltByChunks(levels'[k]) => NoDuplicateVertex(levels'[k])]_vars

\* ------------------------------------------------------------------- C22
\* the mesh holds triangle p and the three vertices it names
HoldsParent(m, p) ==
    /\ p \in DOMAIN m.triangles
    /\ \A k \in 1..3 : m.triangles[p][k] < Len(m.vertices)

\* C22: a call subdivide_chunk(previous, parent_index) with previous one depth
\* below self and triangle parent_index held by previous, with its corner
\* vertices, returns normally, whichever chunks were generated before.
C22_ChunkGenerationCompletes ==
    [][(/\ IsChunkCall(last')
        /\ Adjacent(SelfOf(last'), PreviousOf(last'))
        /\ HoldsParent(PreviousOf(last'), last'.index))
       => last'.outcome # "panic"]_vars

\* ------------------------------------------------------------------- C23
\* every index of the triangle names a vertex of the list
ValidTriangle(t, vertices) == \A k \in 1..3 : t[k] \in 0..(Len(vertices) - 1)

\* a dense mesh (triangles in a list) and a sparse one (triangles in a map)
ValidDense(ico) ==
    \A n \in 1..Len(ico.triangles) : ValidTriangle(ico.triangles[n], ico.vertices)

ValidSparse(m) ==
    \A key \in DOMAIN m.triangles : ValidTriangle(m.triangles[key], m.vertices)

\* C23: in the dense mesh built by regular() and subdivide(), in its
\* from_static copy and in every sparse mesh of the levels, whatever chunks
\* were generated, every vertex index of every present triangle is smaller
\* than the length of the vertex list of the same mesh; a returned flattened
\* index buffer holds such indices only.
C23_IndexValidity ==
    /\ ValidDense(dense)
    /\ ValidSparse(FromStatic(dense))
    /\ \A k \in 1..Len(levels) : ValidSparse(levels[k])
    /\ (last.op = "flattened_chunk_indices" /\ last.outcome = "ok")
          => \A n \in 1..Len(last.value) :
                last.value[n] \in 0..(Len(get(last.level).vertices) - 1)

\* a chunk was flattened out of a mesh built from two chunks or more, with
\* the dense mesh subdivided
C23_Witness ==
    /\ last.op = "flattened_chunk_indices"
    /\ last.outcome = "ok"
    /\ BuiltByChunks(get(last.level))
    /\ Cardinality(DOMAIN get(last.level).triangles) >= 8
    /\ dense.binning_depth >= 1
====
